---- MODULE Spec2Model ----
(***************************************************************************)
(* VDC ledger engine and mint/redeem pipeline (src/vdc.py).                *)
(*                                                                         *)
(* Numbers.  The program computes with Python floats.  The model keeps     *)
(* every number exact:                                                     *)
(*   - a value that the code has passed through round(x, 8) is an integer  *)
(*     count of 1e-8 units ("sats" for VDC, 1e-8 g for the basket);        *)
(*   - a value that has not been rounded yet (a requested redeem amount,   *)
(*     a running float sum) is a fraction [n, d] of a sat, so that         *)
(*     round(x, 8) is a real rounding step (Round8), not the identity;     *)
(*   - kilocalories and joules are fractions [n, d] too (round(joules)    *)
(*     is a rounding step, Round0), gravity is given in 1/100 m/s^2, and   *)
(*     the kinematic estimate is kept in units of 1/KinScale joule.        *)
(* All magnitudes of the model stay far below 2^53 * 1e-8, the range in    *)
(* which a double followed by round(x, 8) reproduces the decimal value;    *)
(* NaN and the infinities are not among the inputs.                        *)
(***************************************************************************)
EXTENDS Integers, Sequences, FiniteSets, TLC

(* ------------------------------ bounds -------------------------------- *)

\* Blocks a ledger may hold beyond the genesis block before operations stop.
MaxBlocks == 2
\* Largest clock reading.
MaxTime == 1
\* Crashes and I/O failures the environment may inflict in one behaviour.
MaxFaults == 1
\* Requested amounts are given to 1/SUB of 1e-8.
SUB == 4

(* ------------------------- protocol constants ------------------------- *)

\* ALPHA_JOULES_TO_VDC = 0.00000095 VDC per joule = 95 sats per joule.
ALPHA_SAT_PER_JOULE == 95
JOULES_PER_KCAL == 4184
\* Commodity rates as fractions: 0.000011 = 11/1000000, 0.0008 = 8/10000,
\* 0.012 = 12/1000 (grams per VDC = 1e-8 g per sat).
GOLD_NUM == 11
GOLD_DEN == 1000000
SILK_NUM == 8
SILK_DEN == 10000
TENCEL_NUM == 12
TENCEL_DEN == 1000
\* GRAVITY = 9.81 m/s^2, in 1/100 m/s^2.
GRAVITY == 981
MOON_GRAVITY == 162
DEFAULT_MASS_KG == 75
\* ROLLING_COEFF = 0.005 = 1/200.
ROLLING_COEFF_INV == 200
\* Gravity is scaled by 100 and the rolling coefficient by 200.
KinScale == 100 * ROLLING_COEFF_INV
\* compute_joules: the minimum-work floor and the divergence gate.
MIN_JOULES == 100000
MAX_RATIO == 1000
KINEMATIC_FLOOR == 10000

LEDGER == "vdc_chain.json"
LEDGER_TMP == "vdc_chain.tmp"
Paths == {LEDGER, LEDGER_TMP}

(* ------------------------------- inputs ------------------------------- *)

Procs == {"p1", "p2"}
\* The single authoritative writer of the ledger file.
Writers == {"p1"}
Wallets == {"VDC_BRANDON_001", "VDC_RICK_SANCHEZ"}

\* A measurement: active kcal, distance (m), elevation (m), mass (kg),
\* gravity (1/100 m/s^2).
Measurement(k, d, e, m, g) ==
    [kcal |-> k, distance |-> d, elevation |-> e, mass |-> m, gravity |-> g]

\* Measurements offered to the mint orchestrator: an accepted one of 76/3
\* kcal (its joules and its amount are no whole numbers), one below the work
\* floor, one with no movement at all.
MintInputs ==
    { Measurement([n |-> 76, d |-> 3], 1000, 10, DEFAULT_MASS_KG, GRAVITY),
      Measurement([n |-> 20, d |-> 1], 5000, 60, DEFAULT_MASS_KG, GRAVITY),
      Measurement([n |-> 25, d |-> 1], 0, 0, DEFAULT_MASS_KG, GRAVITY) }

\* Measurements offered to the validator alone.
PhysicsInputs ==
    { Measurement([n |-> k, d |-> 1], d, e, m, g) :
        k \in {0, 20, 24, 600, 2400}, d \in {0, 1, 120, 5000}, e \in {-1, 0, 13, 60},
        m \in {1, DEFAULT_MASS_KG}, g \in {MOON_GRAVITY, GRAVITY} }

\* Requested redeem amounts, as fractions of a sat: a negative amount, an
\* amount just under 5,000,000 sats that rounds up to it, and 1 VDC.
RedeemAmounts ==
    { [n |-> -1000000, d |-> 1], [n |-> SUB * 5000000 - 1, d |-> SUB],
      [n |-> 100000000, d |-> 1] }

(* ------------------------------ numbers ------------------------------- *)

\* The integer nearest to n/d (d > 0), ties to the even one: Python's round.
RoundDiv(n, d) ==
    LET q == n \div d
        r == n % d
    IN  IF 2 * r < d THEN q
        ELSE IF 2 * r > d THEN q + 1
        ELSE IF q % 2 = 0 THEN q ELSE q + 1

\* round(x, 8) of a float x, a fraction of a sat: the result in sats.
Round8(x) == RoundDiv(x.n, x.d)

\* A rounded amount, in sats, read back as a float.
ToFloat(a) == [n |-> a, d |-> 1]

\* Float addition, subtraction and comparison, exact on fractions.
FAdd(x, y) ==
    IF x.d = y.d THEN [n |-> x.n + y.n, d |-> x.d]
    ELSE [n |-> x.n * y.d + y.n * x.d, d |-> x.d * y.d]
FSub(x, y) == FAdd(x, [n |-> -y.n, d |-> y.d])
FLess(x, y) == x.n * y.d < y.n * x.d

\* A float times a whole number.
FScale(x, k) == [n |-> x.n * k, d |-> x.d]

\* Mutant: the fraction is cut off.
Round0_truncates(x) == x.n \div x.d

\* round(x) and round(x, 0) of a float: the nearest whole number, ties to even.
Round0(x) == RoundDiv(x.n, x.d)

(* ------------------------------- values ------------------------------- *)

None == [kind |-> "none"]
\* File contents: no file, a file cut short by an interrupted write, or the
\* JSON text of a chain.
NoFile == [kind |-> "none"]
Partial == [kind |-> "partial"]
Json(chain) == [kind |-> "json", data |-> chain]

\* "0"*64 and the genesis sentinel.
ZeroHash == [hex |-> "0000000000000000000000000000000000000000000000000000000000000000"]
GenesisHash == [hex |-> "GENESIS_MOONSHOT_NOV2025"]

\* sha256 of the canonical (sort_keys) JSON text of data: an injective image
\* of the record, whatever order its fields were given in.
_hash_block_data(data) == [sha256 |-> data]

genesis_block ==
    [index |-> 0, timestamp |-> 0, txs |-> <<>>, supply |-> 0,
     prev_hash |-> ZeroHash, block_hash |-> GenesisHash]

(* ------------------------- ledger functions --------------------------- *)

\* t.get('amount', 0)
TxAmount(t) == IF "amount" \in DOMAIN t THEN t.amount ELSE 0
\* t.get("type"), tx.get('wallet')
TxType(t) == IF "type" \in DOMAIN t THEN t.type ELSE "none"
TxWallet(t) == IF "wallet" \in DOMAIN t THEN t.wallet ELSE "none"

\* sum(t.get('amount', 0) for t in transactions if t.get("type") == type),
\* a float sum.
RECURSIVE SumOfType(_, _)
SumOfType(transactions, type) ==
    IF transactions = <<>> THEN ToFloat(0)
    ELSE FAdd(IF TxType(Head(transactions)) = type
              THEN ToFloat(TxAmount(Head(transactions))) ELSE ToFloat(0),
              SumOfType(Tail(transactions), type))

\* The record with a block_hash field inserted.
WithHash(data, h) ==
    [k \in DOMAIN data \cup {"block_hash"} |->
        IF k = "block_hash" THEN h ELSE data[k]]

\* Mutant: the copy is taken after a placeholder block_hash was inserted.
block_clone_with_placeholder(new_block_data) ==
    WithHash(new_block_data, [hex |-> ""])

\* dict(new_block_data), taken before the block_hash field is inserted.
block_clone_for_hash(new_block_data) == new_block_data

\* Mutant: the new block links to the hash its predecessor linked to.
commit_prev_hash_stale(prev_block) == prev_block.prev_hash

\* commit: the hash the new block links to.
commit_prev_hash(prev_block) == prev_block.block_hash

\* Mutant: the burned amount is not subtracted.
commit_supply_no_burn(prev_block, transactions) ==
    Round8(FAdd(ToFloat(prev_block.supply), SumOfType(transactions, "MINT")))

\* commit: the new supply, prev.supply + minted - burned, rounded to 8 places.
commit_supply(prev_block, transactions) ==
    LET minted_amount == SumOfType(transactions, "MINT")
        burned_amount == SumOfType(transactions, "BURN")
        new_supply ==
            FSub(FAdd(ToFloat(prev_block.supply), minted_amount), burned_amount)
    IN  Round8(new_supply)

\* commit, from the loaded chain to the block it appends: the new block and
\* the copy that was hashed.
commit_new_block(chain, transactions, time) ==
    LET prev_block == chain[Len(chain)]
        new_block_data ==
            [index |-> prev_block.index + 1,
             timestamp |-> time,
             txs |-> transactions,
             supply |-> commit_supply(prev_block, transactions),
             prev_hash |-> commit_prev_hash(prev_block)]
        clone == block_clone_for_hash(new_block_data)
    IN  [clone |-> clone,
         block |-> WithHash(new_block_data, _hash_block_data(clone))]

\* get_current_supply on a loaded chain: load_chain()[-1].get("supply", 0.0)
get_current_supply(chain) ==
    LET last == chain[Len(chain)]
    IN  IF "supply" \in DOMAIN last THEN last.supply ELSE 0

\* Mutant: the wallet of the transaction is not compared.
balance_step_any_wallet(balance, tx, wallet) ==
    IF TxType(tx) = "MINT" THEN FAdd(balance, ToFloat(TxAmount(tx)))
    ELSE IF TxType(tx) = "BURN" THEN FSub(balance, ToFloat(TxAmount(tx)))
    ELSE balance

\* Mutant: a BURN leaves the balance as it is.
balance_step_ignores_burn(balance, tx, wallet) ==
    IF TxWallet(tx) = wallet /\ TxType(tx) = "MINT"
    THEN FAdd(balance, ToFloat(TxAmount(tx)))
    ELSE balance

\* get_balance: the effect of one transaction on the running float balance.
balance_step(balance, tx, wallet) ==
    IF TxWallet(tx) = wallet
    THEN IF TxType(tx) = "MINT" THEN FAdd(balance, ToFloat(TxAmount(tx)))
         ELSE IF TxType(tx) = "BURN" THEN FSub(balance, ToFloat(TxAmount(tx)))
         ELSE balance
    ELSE balance

\* get_balance: the inner loop over a block's txs.
RECURSIVE BalanceOverTxs(_, _, _)
BalanceOverTxs(balance, txs, wallet) ==
    IF txs = <<>> THEN balance
    ELSE BalanceOverTxs(balance_step(balance, Head(txs), wallet), Tail(txs), wallet)

\* get_balance: the outer loop over the blocks.
RECURSIVE BalanceOverBlocks(_, _, _)
BalanceOverBlocks(balance, blocks, wallet) ==
    IF blocks = <<>> THEN balance
    ELSE BalanceOverBlocks(
            BalanceOverTxs(balance,
                IF "txs" \in DOMAIN Head(blocks) THEN Head(blocks).txs ELSE <<>>,
                wallet),
            Tail(blocks), wallet)

\* get_balance on a loaded chain: round(balance, 8), in sats.
get_balance(chain, wallet) ==
    Round8(BalanceOverBlocks(ToFloat(0), chain, wallet))

(* ------------------------ transaction factory ------------------------- *)

\* create_mint_tx; amount is a float, joules a whole number of joules.
create_mint_tx(wallet, amount, joules, ots_txid, proof_name, time) ==
    [type |-> "MINT", wallet |-> wallet, amount |-> Round8(amount),
     asset |-> "VDC", joules |-> Round0(joules), timestamp |-> time,
     validation_proof |->
        [protocol |-> "PoM", ots_txid |-> ots_txid, proof_folder |-> proof_name]]

\* create_burn_tx: round(amount * rate, 8) for one commodity, in 1e-8 g.
basket_grams(amount, num, den) == RoundDiv(amount.n * num, amount.d * den)

\* create_burn_tx; amount is the requested amount, a float.
create_burn_tx(wallet, amount, time) ==
    [type |-> "BURN", wallet |-> wallet, amount |-> Round8(amount),
     asset |-> "VDC", commodity_redeemed |-> "BOUNDED_BASKET",
     redemption_basket |->
        [gold_grams |-> basket_grams(amount, GOLD_NUM, GOLD_DEN),
         silk_grams |-> basket_grams(amount, SILK_NUM, SILK_DEN),
         tencel_grams |-> basket_grams(amount, TENCEL_NUM, TENCEL_DEN)],
     shipping_txid |-> [ship |-> wallet, time |-> time],
     timestamp |-> time]

(* --------------------------- proof store ------------------------------ *)

\* generate_proof_bundle: the folder name, wallet plus the first 8 hex digits
\* of sha256(str(time.time())): a function of the wallet and the clock reading.
proof_folder_name(wallet, time) == [wallet |-> wallet, suffix |-> time]

\* generate_proof_bundle: the manifest written into the folder.
manifest_data(wallet, joules, vdc, time) ==
    [wallet |-> wallet, joules_verified |-> Round0(joules),
     vdc_minted |-> Round8(vdc), issuance_rate |-> ALPHA_SAT_PER_JOULE,
     timestamp_local |-> time]

\* stamp_proof: "BTC-OTS-" plus the first 16 hex digits of the manifest's sha256.
stamp_txid(manifest) == [ots |-> manifest]

\* ots_verify: the mock confirms every stamp.
ots_verify(ots_txid) == TRUE

(* ------------------------- physics validator -------------------------- *)

\* kinematic_joules = mass*gravity*elevation + mass*gravity*ROLLING_COEFF*distance,
\* in 1/KinScale joule.
kinematic_joules(distance_m, elevation_m, user_mass_kg, gravity) ==
    user_mass_kg * gravity * (ROLLING_COEFF_INV * elevation_m + distance_m)

\* total_joules / (kinematic_joules or 1) > MAX_RATIO, the float division
\* decided exactly: "or" replaces only a kinematic estimate of exactly 0, and a
\* negative divisor makes the quotient of a positive total negative.
kinematic_ratio_exceeds(total_joules, kin) ==
    IF kin = 0 THEN FLess(ToFloat(MAX_RATIO), total_joules)
    ELSE IF kin > 0
    THEN total_joules.n * (KinScale \div MAX_RATIO) > kin * total_joules.d
    ELSE total_joules.n * (KinScale \div MAX_RATIO) < kin * total_joules.d

\* compute_joules: <<total_joules, is_valid>>.
compute_joules(distance_m, elevation_m, user_mass_kg, gravity, active_kcal) ==
    LET total_joules == FScale(active_kcal, JOULES_PER_KCAL)
        kin == kinematic_joules(distance_m, elevation_m, user_mass_kg, gravity)
        check1 == FLess(total_joules, ToFloat(MIN_JOULES))
        check2 == /\ kinematic_ratio_exceeds(total_joules, kin)
                  /\ kin < KINEMATIC_FLOOR * KinScale
    IN  <<total_joules, ~check1 /\ ~check2>>

(* ------------------------------- state -------------------------------- *)

VARIABLES
    fs,       \* the ledger directory: path -> file content
    proofs,   \* the proof store: a set of folders [name, manifest, ots_txid]
    now,      \* the clock reading
    pc,       \* per process: where it stands in its operation
    op,       \* per process: the operation it runs, or ran last
    args,     \* per process: the operation's arguments
    loc,      \* per process: the operation's local variables
    outcome,  \* per process: how its last operation ended
    pre,      \* per process: the files and the proof store when it began
    faults    \* crashes and I/O failures so far

vars == <<fs, proofs, now, pc, op, args, loc, outcome, pre, faults>>

\* The locals of an operation before it has assigned any.
LocInit ==
    [chain |-> <<>>, txs |-> <<>>, tx |-> None, block |-> None, clone |-> None,
     content |-> <<>>, joules |-> ToFloat(0), is_valid |-> FALSE,
     vdc_amount |-> ToFloat(0),
     folder |-> None, ots_txid |-> None, verified |-> "unasked",
     balance |-> 0, supply |-> 0,
     iret |-> "return", awret |-> "return", ldret |-> "return",
     cret |-> "return", intry |-> FALSE]

\* The snapshot of a process that runs no operation.
NoPre == [fs |-> [f \in Paths |-> NoFile], proofs |-> {}]

Init ==
    /\ fs = [f \in Paths |-> NoFile]
    /\ proofs = {}
    /\ now = 0
    /\ pc = [p \in Procs |-> "idle"]
    /\ op = [p \in Procs |-> "none"]
    /\ args = [p \in Procs |-> None]
    /\ loc = [p \in Procs |-> LocInit]
    /\ outcome = [p \in Procs |-> "none"]
    /\ pre = [p \in Procs |-> NoPre]
    /\ faults = 0

\* VDC.LEDGER.exists()
Exists(path) == fs[path] # NoFile

\* Blocks in the ledger file beyond the genesis block.
BlockCount ==
    IF fs[LEDGER].kind = "json" THEN Len(fs[LEDGER].data) - 1 ELSE 0

(* ------------------------- control of a process ------------------------ *)

\* The operation of p ends with the given outcome; l are its final locals.
Finish(p, result, l) ==
    /\ pc' = [pc EXCEPT ![p] = "returned"]
    /\ outcome' = [outcome EXCEPT ![p] = result]
    /\ loc' = [loc EXCEPT ![p] = l]

\* The environment inflicts one more fault.
Fault ==
    /\ faults < MaxFaults
    /\ faults' = faults + 1

\* The process dies: its arguments and locals die with it.
Die(p) ==
    /\ Fault
    /\ pc' = [pc EXCEPT ![p] = "returned"]
    /\ outcome' = [outcome EXCEPT ![p] = "Crashed"]
    /\ loc' = [loc EXCEPT ![p] = LocInit]
    /\ args' = [args EXCEPT ![p] = None]

\* p goes on at label with locals l.
Goto(p, label, l) ==
    /\ pc' = [pc EXCEPT ![p] = label]
    /\ loc' = [loc EXCEPT ![p] = l]
    /\ UNCHANGED outcome

\* An exception leaves the current step: inside the handler's try block it is
\* reported ("CRITICAL FAILURE") and the handler returns; elsewhere it ends
\* the process.
Raise(p) ==
    Finish(p, IF loc[p].intry THEN "CommitFailure" ELSE "Uncaught", loc[p])

\* A call of an operation: p leaves idle with fresh locals l at label first.
Start(p, o, a, first, l) ==
    /\ pc[p] = "idle"
    /\ pc' = [pc EXCEPT ![p] = first]
    /\ op' = [op EXCEPT ![p] = o]
    /\ args' = [args EXCEPT ![p] = a]
    /\ loc' = [loc EXCEPT ![p] = l]
    /\ outcome' = [outcome EXCEPT ![p] = "running"]
    /\ pre' = [pre EXCEPT ![p] = [fs |-> fs, proofs |-> proofs]]
    /\ UNCHANGED <<fs, proofs, now, faults>>

\* The process dies between two steps.
Crash(p) ==
    /\ pc[p] \notin {"idle", "returned"}
    /\ Die(p)
    /\ UNCHANGED <<fs, proofs, now, op, pre>>

\* The operation returns to its caller.
OpReturn(p) ==
    /\ pc[p] = "return"
    /\ Finish(p, "Done", loc[p])
    /\ UNCHANGED <<fs, proofs, now, op, args, pre, faults>>

\* The process of a finished operation exits; the next operation is a new run.
Exit(p) ==
    /\ pc[p] = "returned"
    /\ pc' = [pc EXCEPT ![p] = "idle"]
    /\ op' = [op EXCEPT ![p] = "none"]
    /\ args' = [args EXCEPT ![p] = None]
    /\ loc' = [loc EXCEPT ![p] = LocInit]
    /\ outcome' = [outcome EXCEPT ![p] = "none"]
    /\ pre' = [pre EXCEPT ![p] = NoPre]
    /\ UNCHANGED <<fs, proofs, now, faults>>

\* The clock advances.  An operation is short against the clock's unit, so it
\* reads one clock value throughout.
Tick ==
    /\ now < MaxTime
    /\ \A p \in Procs : pc[p] = "idle"
    /\ now' = now + 1
    /\ UNCHANGED <<fs, proofs, pc, op, args, loc, outcome, pre, faults>>

(* ----------------------------- atomic_write ---------------------------- *)

\* Mutant: the chain is written straight to the ledger's own path.
with_suffix_in_place(path) == path

\* path.with_suffix(".tmp")
with_suffix_tmp(path) == IF path = LEDGER THEN LEDGER_TMP ELSE path

\* tmp.replace(path): an atomic rename over the destination.
Replace(files, src, dst) ==
    IF src = dst THEN files
    ELSE [f \in Paths |->
            IF f = dst THEN files[src] ELSE IF f = src THEN NoFile ELSE files[f]]

\* tmp.write_text(json.dumps(chain, indent=2)) runs to its end.
AwWrite(p) ==
    /\ pc[p] = "aw_write"
    /\ fs' = [fs EXCEPT ![with_suffix_tmp(LEDGER)] = Json(loc[p].content)]
    /\ Goto(p, "aw_replace", loc[p])
    /\ UNCHANGED <<proofs, now, op, args, pre, faults>>

\* tmp.write_text fails part-way (an I/O error): the file is cut short and the
\* exception propagates.
AwWriteFail(p) ==
    /\ pc[p] = "aw_write"
    /\ fs' = [fs EXCEPT ![with_suffix_tmp(LEDGER)] = Partial]
    /\ Fault
    /\ Raise(p)
    /\ UNCHANGED <<proofs, now, op, args, pre>>

\* The process dies while tmp.write_text is writing.
AwWriteCrash(p) ==
    /\ pc[p] = "aw_write"
    /\ fs' = [fs EXCEPT ![with_suffix_tmp(LEDGER)] = Partial]
    /\ Die(p)
    /\ UNCHANGED <<proofs, now, op, pre>>

\* tmp.replace(path), and atomic_write returns to its caller.  When the
\* temporary file is gone (another writer has renamed it) the rename raises
\* FileNotFoundError.
AwReplace(p) ==
    /\ pc[p] = "aw_replace"
    /\ IF Exists(with_suffix_tmp(LEDGER))
       THEN /\ fs' = Replace(fs, with_suffix_tmp(LEDGER), LEDGER)
            /\ Goto(p, loc[p].awret, loc[p])
       ELSE /\ fs' = fs
            /\ Raise(p)
    /\ UNCHANGED <<proofs, now, op, args, pre, faults>>

\* tmp.replace(path) fails (an OS error): nothing is renamed.
AwReplaceFail(p) ==
    /\ pc[p] = "aw_replace"
    /\ Fault
    /\ Raise(p)
    /\ UNCHANGED <<fs, proofs, now, op, args, pre>>

(* ----------------------- init_ledger, load_chain ----------------------- *)

\* Mutant: init_ledger does not look whether the ledger exists.
InitLedger_overwrites(p) ==
    /\ pc[p] = "init_ledger"
    /\ Goto(p, "aw_write",
            [loc[p] EXCEPT !.content = <<genesis_block>>, !.awret = loc[p].iret])
    /\ UNCHANGED <<fs, proofs, now, op, args, pre, faults>>

\* init_ledger: nothing to do when the ledger exists, else the genesis chain
\* goes through atomic_write.
InitLedger(p) ==
    /\ pc[p] = "init_ledger"
    /\ IF Exists(LEDGER)
       THEN Goto(p, loc[p].iret, loc[p])
       ELSE Goto(p, "aw_write",
                 [loc[p] EXCEPT !.content = <<genesis_block>>, !.awret = loc[p].iret])
    /\ UNCHANGED <<fs, proofs, now, op, args, pre, faults>>

\* json.loads(VDC.LEDGER.read_text()): a file that is no JSON text ends the
\* process (sys.exit(1), which no "except Exception" catches); a missing file
\* raises.
ReadLedger(p) ==
    IF fs[LEDGER].kind = "json"
    THEN Goto(p, loc[p].ldret, [loc[p] EXCEPT !.chain = fs[LEDGER].data])
    ELSE IF fs[LEDGER].kind = "partial"
    THEN Finish(p, "LedgerCorrupt", loc[p])
    ELSE Raise(p)

\* Mutant: load_chain writes a fresh genesis ledger whether or not a ledger
\* exists.
LoadChain_always_initializes(p) ==
    /\ pc[p] = "load_chain"
    /\ Goto(p, "aw_write",
            [loc[p] EXCEPT !.content = <<genesis_block>>, !.awret = "load_read"])
    /\ UNCHANGED <<fs, proofs, now, op, args, pre, faults>>

\* load_chain: initializes the ledger when there is none, then reads it.
LoadChain(p) ==
    /\ pc[p] = "load_chain"
    /\ IF ~Exists(LEDGER)
       THEN Goto(p, "init_ledger", [loc[p] EXCEPT !.iret = "load_read"])
       ELSE ReadLedger(p)
    /\ UNCHANGED <<fs, proofs, now, op, args, pre, faults>>

\* load_chain after its call of init_ledger.
LoadRead(p) ==
    /\ pc[p] = "load_read"
    /\ ReadLedger(p)
    /\ UNCHANGED <<fs, proofs, now, op, args, pre, faults>>

\* The initialize operation: init_ledger called on its own.
StartInit(p) == Start(p, "init", None, "init_ledger", LocInit)

(* -------------------------------- commit ------------------------------- *)

\* Mutant: the new block is put in front of the chain.
chain_append_front(chain, block) == <<block>> \o chain

\* commit: chain.append(new_block_data)
chain_append(chain, block) == Append(chain, block)

\* Mutant: only the new block is handed to atomic_write.
CommitBuild_drops_chain(p) ==
    /\ pc[p] = "commit_build"
    /\ LET nb == commit_new_block(loc[p].chain, loc[p].txs, now)
       IN  Goto(p, "aw_write",
                [loc[p] EXCEPT !.block = nb.block, !.clone = nb.clone,
                               !.content = <<nb.block>>,
                               !.awret = loc[p].cret])
    /\ UNCHANGED <<fs, proofs, now, op, args, pre, faults>>

\* commit after load_chain: builds the block, appends it to the loaded chain
\* and hands the whole chain to atomic_write.  On an empty chain, chain[-1]
\* raises IndexError.
CommitBuild(p) ==
    /\ pc[p] = "commit_build"
    /\ IF loc[p].chain = <<>>
       THEN Raise(p)
       ELSE LET nb == commit_new_block(loc[p].chain, loc[p].txs, now)
            IN  Goto(p, "aw_write",
                     [loc[p] EXCEPT !.block = nb.block, !.clone = nb.clone,
                                    !.content = chain_append(loc[p].chain, nb.block),
                                    !.awret = loc[p].cret])
    /\ UNCHANGED <<fs, proofs, now, op, args, pre, faults>>

(* ------------------------------ handle_mint ---------------------------- *)

StartMint(p, wallet, m) ==
    /\ BlockCount < MaxBlocks
    /\ Start(p, "mint", [wallet |-> wallet, m |-> m], "Validating", LocInit)

\* Mutant: the validator's verdict is not looked at.
MintValidate_ignores_verdict(p) ==
    /\ pc[p] = "Validating"
    /\ LET m == args[p].m
           r == compute_joules(m.distance, m.elevation, m.mass, m.gravity, m.kcal)
           l == [loc[p] EXCEPT !.joules = r[1], !.is_valid = r[2],
                               !.vdc_amount = FScale(r[1], ALPHA_SAT_PER_JOULE)]
       IN  Goto(p, "AttestationPending", [l EXCEPT !.intry = TRUE])
    /\ UNCHANGED <<fs, proofs, now, op, args, pre, faults>>

\* Mutant: the proof bundle is generated before is_valid is looked at.
MintValidate_proof_first(p) ==
    /\ pc[p] = "Validating"
    /\ LET m == args[p].m
           r == compute_joules(m.distance, m.elevation, m.mass, m.gravity, m.kcal)
           vdc == FScale(r[1], ALPHA_SAT_PER_JOULE)
           name == proof_folder_name(args[p].wallet, now)
           manifest == manifest_data(args[p].wallet, r[1], vdc, now)
           l == [loc[p] EXCEPT !.joules = r[1], !.is_valid = r[2], !.vdc_amount = vdc]
       IN  /\ proofs' = {f \in proofs : f.name # name}
                        \cup {[name |-> name, manifest |-> manifest,
                               ots_txid |-> stamp_txid(manifest)]}
           /\ IF ~r[2]
              THEN Finish(p, "ValidationRejected", l)
              ELSE Goto(p, "AttestationPending", [l EXCEPT !.intry = TRUE])
    /\ UNCHANGED <<fs, now, op, args, pre, faults>>

\* handle_mint up to "if not is_valid": compute_joules and the amount.
MintValidate(p) ==
    /\ pc[p] = "Validating"
    /\ LET m == args[p].m
           r == compute_joules(m.distance, m.elevation, m.mass, m.gravity, m.kcal)
           l == [loc[p] EXCEPT !.joules = r[1], !.is_valid = r[2],
                               !.vdc_amount = FScale(r[1], ALPHA_SAT_PER_JOULE)]
       IN  IF ~r[2]
           THEN Finish(p, "ValidationRejected", l)
           ELSE Goto(p, "AttestationPending", [l EXCEPT !.intry = TRUE])
    /\ UNCHANGED <<fs, proofs, now, op, args, pre, faults>>

\* Mutant: the answer of ots_verify is not looked at.
MintAttestStep_ignores_verdict(p, verified) ==
    /\ pc[p] = "AttestationPending"
    /\ LET w == args[p].wallet
           name == proof_folder_name(w, now)
           manifest == manifest_data(w, loc[p].joules, loc[p].vdc_amount, now)
           txid == stamp_txid(manifest)
           l == [loc[p] EXCEPT !.folder = name, !.ots_txid = txid,
                               !.verified = IF verified THEN "yes" ELSE "no"]
           mint_tx == create_mint_tx(w, loc[p].vdc_amount, loc[p].joules, txid, name, now)
       IN  /\ proofs' = {f \in proofs : f.name # name}
                        \cup {[name |-> name, manifest |-> manifest, ots_txid |-> txid]}
           /\ Goto(p, "load_chain",
                   [l EXCEPT !.tx = mint_tx, !.txs = <<mint_tx>>,
                             !.ldret = "commit_build", !.cret = "mint_report"])
    /\ UNCHANGED <<fs, now, op, args, pre, faults>>

\* handle_mint from generate_proof_bundle to the call of commit, for a given
\* answer of ots_verify.
MintAttestStep(p, verified) ==
    /\ pc[p] = "AttestationPending"
    /\ LET w == args[p].wallet
           name == proof_folder_name(w, now)
           manifest == manifest_data(w, loc[p].joules, loc[p].vdc_amount, now)
           txid == stamp_txid(manifest)
           l == [loc[p] EXCEPT !.folder = name, !.ots_txid = txid,
                               !.verified = IF verified THEN "yes" ELSE "no"]
           mint_tx == create_mint_tx(w, loc[p].vdc_amount, loc[p].joules, txid, name, now)
       IN  /\ proofs' = {f \in proofs : f.name # name}
                        \cup {[name |-> name, manifest |-> manifest, ots_txid |-> txid]}
           /\ IF ~verified
              THEN Finish(p, "AttestationFailed", l)
              ELSE Goto(p, "load_chain",
                        [l EXCEPT !.tx = mint_tx, !.txs = <<mint_tx>>,
                                  !.ldret = "commit_build", !.cret = "mint_report"])
    /\ UNCHANGED <<fs, now, op, args, pre, faults>>

\* The attestation step with the repository's ots_verify.
MintAttest(p) ==
    MintAttestStep(p, ots_verify(stamp_txid(
        manifest_data(args[p].wallet, loc[p].joules, loc[p].vdc_amount, now))))

\* The attestation step with an attestor that may report the stamp unverified.
MintAttestExternal(p) == \E verified \in BOOLEAN : MintAttestStep(p, verified)

\* handle_mint after commit: the report reads balance and supply back.
MintReport(p) ==
    /\ pc[p] = "mint_report"
    /\ IF fs[LEDGER].kind = "json"
       THEN Finish(p, "Done",
                [loc[p] EXCEPT !.balance = get_balance(fs[LEDGER].data, args[p].wallet),
                               !.supply = get_current_supply(fs[LEDGER].data)])
       ELSE Finish(p, "Uncaught", loc[p])
    /\ UNCHANGED <<fs, proofs, now, op, args, pre, faults>>

(* ----------------------------- handle_redeem --------------------------- *)

\* handle_redeem begins with get_balance, that is with load_chain.
StartRedeem(p, wallet, amount) ==
    /\ BlockCount < MaxBlocks
    /\ Start(p, "redeem", [wallet |-> wallet, amount |-> amount], "load_chain",
             [LocInit EXCEPT !.ldret = "redeem_gate"])

\* Mutant: the balance is compared with zero, not with the amount.
insufficient_below_zero(balance, amount) == FLess(ToFloat(balance), ToFloat(0))

\* Mutant: the balance is compared with the whole sats of the amount.
insufficient_truncates(balance, amount) == balance < amount.n \div amount.d

\* handle_redeem: "if balance < amount".
insufficient(balance, amount) == FLess(ToFloat(balance), amount)

\* handle_redeem from the balance check to the call of commit.
RedeemGate(p) ==
    /\ pc[p] = "redeem_gate"
    /\ LET w == args[p].wallet
           balance == get_balance(loc[p].chain, w)
           burn_tx == create_burn_tx(w, args[p].amount, now)
           l == [loc[p] EXCEPT !.balance = balance]
       IN  IF insufficient(balance, args[p].amount)
           THEN Finish(p, "InsufficientBalance", l)
           ELSE Goto(p, "load_chain",
                     [l EXCEPT !.tx = burn_tx, !.txs = <<burn_tx>>, !.intry = TRUE,
                               !.ldret = "commit_build", !.cret = "redeem_report"])
    /\ UNCHANGED <<fs, proofs, now, op, args, pre, faults>>

\* handle_redeem after commit: the report reads the balance back.
RedeemReport(p) ==
    /\ pc[p] = "redeem_report"
    /\ IF fs[LEDGER].kind = "json"
       THEN Finish(p, "Done",
                [loc[p] EXCEPT !.balance = get_balance(fs[LEDGER].data, args[p].wallet)])
       ELSE Finish(p, "Uncaught", loc[p])
    /\ UNCHANGED <<fs, proofs, now, op, args, pre, faults>>

(* ----------------------------- handle_balance -------------------------- *)

\* handle_balance begins with get_balance, that is with load_chain.
StartBalance(p, wallet) ==
    Start(p, "balance", [wallet |-> wallet], "load_chain",
          [LocInit EXCEPT !.ldret = "balance_get"])

\* handle_balance: get_balance on the loaded chain, then get_current_supply
\* loads the chain again.
BalanceGet(p) ==
    /\ pc[p] = "balance_get"
    /\ Goto(p, "load_chain",
            [loc[p] EXCEPT !.balance = get_balance(loc[p].chain, args[p].wallet),
                           !.ldret = "balance_supply"])
    /\ UNCHANGED <<fs, proofs, now, op, args, pre, faults>>

\* handle_balance: get_current_supply and the report.  On an empty chain,
\* load_chain()[-1] raises IndexError.
BalanceSupply(p) ==
    /\ pc[p] = "balance_supply"
    /\ IF loc[p].chain = <<>>
       THEN Raise(p)
       ELSE Finish(p, "Done",
                   [loc[p] EXCEPT !.supply = get_current_supply(loc[p].chain)])
    /\ UNCHANGED <<fs, proofs, now, op, args, pre, faults>>

(* ---------------------------- specifications --------------------------- *)

\* One step of process p, the attestation step excepted.
ProcStep(p) ==
    \/ StartInit(p)
    \/ \E w \in Wallets, m \in MintInputs : StartMint(p, w, m)
    \/ \E w \in Wallets, a \in RedeemAmounts : StartRedeem(p, w, a)
    \/ \E w \in Wallets : StartBalance(p, w)
    \/ OpReturn(p)
    \/ Exit(p)
    \/ InitLedger(p)
    \/ LoadChain(p)
    \/ LoadRead(p)
    \/ CommitBuild(p)
    \/ AwWrite(p)
    \/ AwWriteFail(p)
    \/ AwWriteCrash(p)
    \/ AwReplace(p)
    \/ AwReplaceFail(p)
    \/ MintValidate(p)
    \/ MintReport(p)
    \/ RedeemGate(p)
    \/ RedeemReport(p)
    \/ BalanceGet(p)
    \/ BalanceSupply(p)
    \/ Crash(p)

\* The program as it is: a single writer, the repository's ots_verify.
Next ==
    \/ Tick
    \/ \E p \in Writers : ProcStep(p) \/ MintAttest(p)

Spec == Init /\ [][Next]_vars

\* Mints with an external attestor in place of the mock: the steps a mint can
\* take, with the answer of the attestor left open.
MintStepAttestor(p) ==
    \/ \E w \in Wallets, m \in MintInputs : StartMint(p, w, m)
    \/ MintValidate(p)
    \/ MintAttestExternal(p)
    \/ LoadChain(p)
    \/ InitLedger(p)
    \/ LoadRead(p)
    \/ CommitBuild(p)
    \/ AwWrite(p)
    \/ AwWriteFail(p)
    \/ AwWriteCrash(p)
    \/ AwReplace(p)
    \/ AwReplaceFail(p)
    \/ MintReport(p)
    \/ Exit(p)
    \/ Crash(p)

NextAttestor ==
    \/ Tick
    \/ \E p \in Writers : MintStepAttestor(p)

SpecAttestor == Init /\ [][NextAttestor]_vars

\* The validator alone: handle_mint is called with each measurement on a
\* fresh system and takes its validation step.
InitPhysics ==
    /\ fs = [f \in Paths |-> NoFile]
    /\ proofs = {}
    /\ now = 0
    /\ faults = 0
    /\ \E w \in Wallets, m \in PhysicsInputs :
         /\ pc = [p \in Procs |-> IF p \in Writers THEN "Validating" ELSE "idle"]
         /\ op = [p \in Procs |-> IF p \in Writers THEN "mint" ELSE "none"]
         /\ args = [p \in Procs |->
                      IF p \in Writers THEN [wallet |-> w, m |-> m] ELSE None]
    /\ loc = [p \in Procs |-> LocInit]
    /\ outcome = [p \in Procs |-> IF p \in Writers THEN "running" ELSE "none"]
    /\ pre = [p \in Procs |-> NoPre]

NextPhysics == \E p \in Writers : MintValidate(p)

SpecPhysics == InitPhysics /\ [][NextPhysics]_vars

\* Two invocations at once on the same ledger file, without faults: the
\* steps of mints, interleaved statement by statement.
MintStepConcurrent(p) ==
    \/ \E w \in Wallets, m \in MintInputs : StartMint(p, w, m)
    \/ MintValidate(p)
    \/ MintAttest(p)
    \/ LoadChain(p)
    \/ InitLedger(p)
    \/ LoadRead(p)
    \/ CommitBuild(p)
    \/ AwWrite(p)
    \/ AwReplace(p)
    \/ MintReport(p)
    \/ Exit(p)

NextConcurrent ==
    \/ Tick
    \/ \E p \in Procs : MintStepConcurrent(p)

SpecConcurrent == Init /\ [][NextConcurrent]_vars

\* Ledger files that hold no chain: text that is no JSON, and the JSON text
\* of an empty array.
CorruptFiles == {Partial, Json(<<>>)}

\* The program started on a ledger file that holds no chain.
InitCorrupt ==
    /\ \E c \in CorruptFiles :
         fs = [f \in Paths |-> IF f = LEDGER THEN c ELSE NoFile]
    /\ proofs = {}
    /\ now = 0
    /\ pc = [p \in Procs |-> "idle"]
    /\ op = [p \in Procs |-> "none"]
    /\ args = [p \in Procs |-> None]
    /\ loc = [p \in Procs |-> LocInit]
    /\ outcome = [p \in Procs |-> "none"]
    /\ pre = [p \in Procs |-> NoPre]
    /\ faults = 0

\* The steps that can be taken on such a file.
StepCorrupt(p) ==
    \/ \E w \in Wallets, m \in MintInputs : StartMint(p, w, m)
    \/ \E w \in Wallets, a \in RedeemAmounts : StartRedeem(p, w, a)
    \/ \E w \in Wallets : StartBalance(p, w)
    \/ MintValidate(p)
    \/ MintAttest(p)
    \/ LoadChain(p)
    \/ CommitBuild(p)
    \/ RedeemGate(p)
    \/ BalanceGet(p)
    \/ BalanceSupply(p)
    \/ Exit(p)

NextCorrupt ==
    \/ Tick
    \/ \E p \in Writers : StepCorrupt(p)

SpecCorrupt == InitCorrupt /\ [][NextCorrupt]_vars

\* Requested amounts offered to the burn factory, as fractions of a sat:
\* 208 sats and 208.4 sats (both recorded as 208), half a sat, 0.05 VDC and
\* 1 VDC.
BurnInputs ==
    { [n |-> 208, d |-> 1], [n |-> 1042, d |-> 5], [n |-> 1, d |-> 2],
      [n |-> 5000000, d |-> 1], [n |-> 100000000, d |-> 1] }

\* The block a finished mint of the accepted measurement commits for wallet
\* w on top of chain at clock reading 0, and the proof folder it leaves.
MintedJoules ==
    compute_joules(1000, 10, DEFAULT_MASS_KG, GRAVITY, [n |-> 76, d |-> 3])[1]
MintedFolder(w) ==
    LET vdc == FScale(MintedJoules, ALPHA_SAT_PER_JOULE)
        manifest == manifest_data(w, MintedJoules, vdc, 0)
    IN  [name |-> proof_folder_name(w, 0), manifest |-> manifest,
         ots_txid |-> stamp_txid(manifest)]
MintedBlock(chain, w) ==
    LET vdc == FScale(MintedJoules, ALPHA_SAT_PER_JOULE)
        f == MintedFolder(w)
    IN  commit_new_block(chain,
            <<create_mint_tx(w, vdc, MintedJoules, f.ots_txid, f.name, 0)>>, 0).block

\* The chain after one such mint for each of the two wallets.
FundedChain ==
    LET c1 == <<genesis_block, MintedBlock(<<genesis_block>>, "VDC_BRANDON_001")>>
    IN  Append(c1, MintedBlock(c1, "VDC_RICK_SANCHEZ"))

\* The burn factory alone: on the funded ledger, two redeems have each read
\* the chain and stand before the balance check, with any wallets and amounts.
InitBurn ==
    /\ fs = [f \in Paths |-> IF f = LEDGER THEN Json(FundedChain) ELSE NoFile]
    /\ proofs = {MintedFolder(w) : w \in Wallets}
    /\ now = 0
    /\ faults = 0
    /\ pc = [p \in Procs |-> "redeem_gate"]
    /\ op = [p \in Procs |-> "redeem"]
    /\ args \in [Procs -> [wallet : Wallets, amount : BurnInputs]]
    /\ loc = [p \in Procs |->
                [LocInit EXCEPT !.chain = FundedChain, !.ldret = "redeem_gate"]]
    /\ outcome = [p \in Procs |-> "running"]
    /\ pre = [p \in Procs |-> [fs |-> fs, proofs |-> proofs]]

NextBurn == \E p \in Procs : RedeemGate(p)

SpecBurn == InitBurn /\ [][NextBurn]_vars

\* The amount one mint of the accepted measurement records, in sats.
MintedSats == Round8(FScale(MintedJoules, ALPHA_SAT_PER_JOULE))

\* Requested redeem amounts around the balance one mint leaves, as fractions
\* of a sat: a negative amount, a fraction of a sat under the minted amount
\* (recorded as the minted amount), a fraction of a sat over it (recorded as the
\* minted amount too), and nearly a sat over it (recorded as one sat more).
GateAmounts ==
    { [n |-> -1000000, d |-> 1],
      [n |-> SUB * MintedSats - 1, d |-> SUB],
      [n |-> SUB * MintedSats + 1, d |-> SUB],
      [n |-> SUB * MintedSats + SUB - 1, d |-> SUB] }

\* Mints and redeems of a single writer without faults: the steps of
\* handle_mint and handle_redeem, with redeem amounts at the edge of the gate.
LedgerStep(p) ==
    \/ \E w \in Wallets, m \in MintInputs : StartMint(p, w, m)
    \/ \E w \in Wallets, a \in GateAmounts : StartRedeem(p, w, a)
    \/ MintValidate(p)
    \/ MintAttest(p)
    \/ LoadChain(p)
    \/ InitLedger(p)
    \/ LoadRead(p)
    \/ CommitBuild(p)
    \/ AwWrite(p)
    \/ AwReplace(p)
    \/ MintReport(p)
    \/ RedeemGate(p)
    \/ RedeemReport(p)
    \/ Exit(p)

NextGate ==
    \/ Tick
    \/ \E p \in Writers : LedgerStep(p)

SpecGate == Init /\ [][NextGate]_vars

(* ------------------------------- claims -------------------------------- *)

\* The ledger file holds a chain.
LedgerStored == fs[LEDGER].kind = "json"

\* The chain load_chain returns for a ledger file: the stored one, or the
\* genesis chain it creates when there is no file.
ChainOf(file) == IF file.kind = "json" THEN file.data ELSE <<genesis_block>>

\* A block record without its block_hash field.
WithoutHash(b) == [k \in DOMAIN b \ {"block_hash"} |-> b[k]]

\* All transactions of a chain, in order.
RECURSIVE AllTxs(_)
AllTxs(c) == IF c = <<>> THEN <<>> ELSE Head(c).txs \o AllTxs(Tail(c))

\* The sum, in sats, of the amounts of the transactions of one type.
RECURSIVE Total(_, _)
Total(txs, type) ==
    IF txs = <<>> THEN 0
    ELSE (IF Head(txs).type = type THEN Head(txs).amount ELSE 0)
         + Total(Tail(txs), type)

\* The same, for the transactions of one wallet only.
RECURSIVE TotalFor(_, _, _)
TotalFor(txs, type, w) ==
    IF txs = <<>> THEN 0
    ELSE (IF Head(txs).type = type /\ Head(txs).wallet = w
          THEN Head(txs).amount ELSE 0)
         + TotalFor(Tail(txs), type, w)

\* new is old with exactly one block appended.
IsPrefixPlusOne(old, new) ==
    /\ Len(new) = Len(old) + 1
    /\ SubSeq(new, 1, Len(old)) = old

\* The last block of c (not the genesis block) is linked to the one before
\* it, carries its position as index and the hash of its own content.
WellFormedLast(c) ==
    LET b == c[Len(c)]
    IN  /\ Len(c) >= 2
        /\ b.index = Len(c) - 1
        /\ b.prev_hash = c[Len(c) - 1].block_hash
        /\ b.block_hash = _hash_block_data(WithoutHash(b))

\* C1: the stored chain begins with the fixed genesis block (index 0, no
\* transactions, supply 0, prev_hash of 64 zeros, the sentinel block_hash) and
\* every later block's prev_hash is the block_hash of the block before it.
C1_ChainLinked ==
    LedgerStored =>
        LET c == fs[LEDGER].data
        IN  /\ Len(c) >= 1
            /\ c[1].index = 0
            /\ c[1].txs = <<>>
            /\ c[1].supply = 0
            /\ c[1].prev_hash = ZeroHash
            /\ c[1].block_hash = GenesisHash
            /\ \A i \in 2..Len(c) : c[i].prev_hash = c[i - 1].block_hash

\* Two blocks have been committed on top of the genesis block.
C1_Witness == LedgerStored /\ Len(fs[LEDGER].data) >= 3

\* C2: every committed block's block_hash is the hash of that block's record
\* without the block_hash field (index, timestamp, txs, supply, prev_hash
\* only), and the record commit hands to the hash function never holds a
\* block_hash field.
C2_HashOfUnhashedRecord ==
    /\ LedgerStored =>
         \A i \in 2..Len(fs[LEDGER].data) :
            LET b == fs[LEDGER].data[i]
            IN  /\ DOMAIN WithoutHash(b) =
                      {"index", "timestamp", "txs", "supply", "prev_hash"}
                /\ b.block_hash = _hash_block_data(WithoutHash(b))
    /\ \A p \in Procs :
         loc[p].clone # None => "block_hash" \notin DOMAIN loc[p].clone

\* A commit has hashed its block and the block is stored.
C2_Witness ==
    \E p \in Procs :
        /\ pc[p] = "returned" /\ outcome[p] = "Done"
        /\ loc[p].clone # None
        /\ LedgerStored
        /\ fs[LEDGER].data[Len(fs[LEDGER].data)] = loc[p].block

\* C3: the supply of the last block is the sum of all MINT amounts minus the
\* sum of all BURN amounts of the whole chain, and each block's supply is the
\* supply of the block before it plus its own MINT amounts minus its own BURN
\* amounts.
C3_SupplyConservation ==
    LedgerStored =>
        LET c == fs[LEDGER].data
        IN  /\ get_current_supply(c) =
                    Total(AllTxs(c), "MINT") - Total(AllTxs(c), "BURN")
            /\ \A i \in 2..Len(c) :
                    c[i].supply = c[i - 1].supply + Total(c[i].txs, "MINT")
                                                  - Total(c[i].txs, "BURN")

\* The chain holds a MINT and a BURN, both of a non-zero amount.
C3_Witness ==
    /\ LedgerStored
    /\ Total(AllTxs(fs[LEDGER].data), "MINT") > 0
    /\ Total(AllTxs(fs[LEDGER].data), "BURN") > 0

\* C4: the balance of any wallet is the sum of the MINT amounts addressed to
\* it minus the sum of the BURN amounts addressed to it, over all blocks;
\* transactions of other wallets contribute nothing (a wallet with no
\* transaction has balance 0).
C4_BalanceConservation ==
    LedgerStored =>
        LET c == fs[LEDGER].data
        IN  \A w \in Wallets \cup {"VDC_NOBODY"} :
                get_balance(c, w) = TotalFor(AllTxs(c), "MINT", w)
                                    - TotalFor(AllTxs(c), "BURN", w)

\* The chain holds transactions of a non-zero amount for two wallets.
C4_Witness ==
    /\ LedgerStored
    /\ \A w \in Wallets :
         \E i \in 1..Len(AllTxs(fs[LEDGER].data)) :
            /\ AllTxs(fs[LEDGER].data)[i].wallet = w
            /\ AllTxs(fs[LEDGER].data)[i].amount # 0

\* C5: at every point of a mint or redeem, and so wherever the process
\* crashes, the ledger file is never a truncated one (load succeeds) and the
\* chain it gives is either the chain from before the operation or that chain
\* with one complete, linked and hashed block appended.
C5_AtomicDurability ==
    /\ fs[LEDGER].kind # "partial"
    /\ \A p \in Procs :
         (pc[p] # "idle" /\ op[p] \in {"mint", "redeem"}) =>
            LET old == ChainOf(pre[p].fs[LEDGER])
                new == ChainOf(fs[LEDGER])
            IN  new = old \/ (IsPrefixPlusOne(old, new) /\ WellFormedLast(new))

\* A commit crashed after the temporary file was written and before the
\* replace: the temporary file holds the new chain, the ledger the old one.
C5_Witness ==
    \E p \in Procs :
        /\ outcome[p] = "Crashed" /\ op[p] \in {"mint", "redeem"}
        /\ fs[LEDGER_TMP].kind = "json"
        /\ LedgerStored
        /\ IsPrefixPlusOne(fs[LEDGER].data, fs[LEDGER_TMP].data)
        /\ fs[LEDGER] = pre[p].fs[LEDGER]

\* C6: a mint or redeem that has ended has either appended exactly one
\* complete, linked and hashed block or left the chain as it was; a finished
\* one has appended its block; and when commit was called and did not
\* finish, the failure is the reported one (not an escaped exception) and the
\* ledger holds the chain from before.
C6_AllOrNothing ==
    \A p \in Procs :
        (pc[p] = "returned" /\ op[p] \in {"mint", "redeem"}) =>
            LET old == ChainOf(pre[p].fs[LEDGER])
                new == ChainOf(fs[LEDGER])
            IN  /\ new = old \/ (IsPrefixPlusOne(old, new) /\ WellFormedLast(new))
                /\ outcome[p] = "Done" =>
                      /\ IsPrefixPlusOne(old, new)
                      /\ new[Len(new)] = loc[p].block
                /\ (loc[p].txs # <<>> /\ outcome[p] # "Done") =>
                      /\ outcome[p] = "CommitFailure"
                      /\ new = old
                      /\ fs[LEDGER].kind # "partial"

\* A write inside commit failed on a ledger that already held a block.
C6_Witness ==
    \E p \in Procs :
        /\ pc[p] = "returned" /\ outcome[p] = "CommitFailure"
        /\ fs[LEDGER_TMP].kind = "partial"
        /\ LedgerStored /\ Len(fs[LEDGER].data) >= 2

\* C7: a redeem of amount a from a wallet whose balance is below a is
\* rejected and leaves the chain as it was; a redeem that is not rejected (the
\* balance is at least a) and finishes appends one block holding exactly one
\* BURN transaction for that wallet, lowers the wallet's balance and the
\* supply by the recorded amount, and leaves every other balance alone.
C7_RedeemGate ==
    \A p \in Procs :
        (/\ op[p] = "redeem" /\ pc[p] = "returned"
         /\ outcome[p] \in {"InsufficientBalance", "Done", "CommitFailure"}) =>
            LET w == args[p].wallet
                a == args[p].amount
                old == ChainOf(pre[p].fs[LEDGER])
                new == ChainOf(fs[LEDGER])
                below == get_balance(old, w) * a.d < a.n
            IN  /\ below => (outcome[p] = "InsufficientBalance" /\ new = old)
                /\ ~below => outcome[p] # "InsufficientBalance"
                /\ outcome[p] = "Done" =>
                      LET b == new[Len(new)]
                      IN  /\ IsPrefixPlusOne(old, new)
                          /\ Len(b.txs) = 1
                          /\ b.txs[1].type = "BURN"
                          /\ b.txs[1].wallet = w
                          /\ get_balance(new, w) =
                                get_balance(old, w) - b.txs[1].amount
                          /\ get_current_supply(new) =
                                get_current_supply(old) - b.txs[1].amount
                          /\ \A v \in Wallets \ {w} :
                                get_balance(new, v) = get_balance(old, v)

\* A redeem of a positive amount has finished, from a wallet that held it.
C7_Witness ==
    \E p \in Procs :
        /\ op[p] = "redeem" /\ pc[p] = "returned" /\ outcome[p] = "Done"
        /\ loc[p].tx.amount > 0
        /\ get_balance(ChainOf(pre[p].fs[LEDGER]), args[p].wallet) > 0

\* C8: a mint whose measurements the validator rejects ends as
\* ValidationRejected having asked for no attestation and written nothing:
\* no proof folder, no stamp, no transaction, files and proof store as they
\* were before the mint; and only a rejected measurement ends that way.
C8_RejectedMintNoEffect ==
    \A p \in Procs :
        (op[p] = "mint" /\ pc[p] \notin {"idle", "Validating"}
                        /\ outcome[p] # "Crashed") =>
            /\ ~loc[p].is_valid =>
                  /\ pc[p] = "returned"
                  /\ outcome[p] = "ValidationRejected"
                  /\ fs = pre[p].fs
                  /\ proofs = pre[p].proofs
                  /\ loc[p].folder = None
                  /\ loc[p].ots_txid = None
                  /\ loc[p].verified = "unasked"
                  /\ loc[p].tx = None
            /\ outcome[p] = "ValidationRejected" => ~loc[p].is_valid

\* A mint was rejected by the validator while the ledger held a block and the
\* proof store a folder.
C8_Witness ==
    \E p \in Procs :
        /\ op[p] = "mint" /\ outcome[p] = "ValidationRejected"
        /\ LedgerStored /\ Len(fs[LEDGER].data) >= 2
        /\ proofs # {}

\* C9: a mint whose stamp the attestor reports unverified ends there as
\* AttestationFailed: no transaction is built, commit is not called, the files
\* are as before the mint, and the proof store differs from before only in the
\* folder of this mint; and a mint ends that way only on such a report.
C9_AttestationFailureAborts ==
    \A p \in Procs :
        op[p] = "mint" =>
            /\ loc[p].verified = "no" =>
                  /\ pc[p] = "returned"
                  /\ outcome[p] = "AttestationFailed"
                  /\ loc[p].tx = None
                  /\ loc[p].txs = <<>>
                  /\ loc[p].block = None
                  /\ fs = pre[p].fs
                  /\ \E f \in proofs : f.name = loc[p].folder
                  /\ {f \in proofs : f.name # loc[p].folder} =
                        {f \in pre[p].proofs : f.name # loc[p].folder}
            /\ outcome[p] = "AttestationFailed" => loc[p].verified = "no"

\* A mint was aborted by the attestor while the ledger held a block.
C9_Witness ==
    \E p \in Procs :
        /\ op[p] = "mint" /\ outcome[p] = "AttestationFailed"
        /\ loc[p].verified = "no"
        /\ LedgerStored /\ Len(fs[LEDGER].data) >= 2

\* The result the validator is said to give for a measurement m: rejected
\* when the work is under 100000 J, or when the work divided by
\* max(kinematic estimate, 1) is over 1000 while the estimate is under
\* 10000 J. The estimate is in 1/20000 J, as mass * gravity * (elevation +
\* distance / 200) with gravity in hundredths.
ClaimedAccept(m) ==
    LET Wn == m.kcal.n * 4184
        Wd == m.kcal.d
        kin == m.mass * m.gravity * (200 * m.elevation + m.distance)
        divisor == IF kin > 20000 THEN kin ELSE 20000
    IN  /\ Wn >= 100000 * Wd
        /\ ~(Wn * 20 > divisor * Wd /\ kin < 10000 * 20000)

\* C10: the validator returns workJoules = activeEnergyKcal * 4184 and
\* accepts exactly when workJoules >= 100000 and not (workJoules /
\* max(kinematicJoules, 1) > 1000 and kinematicJoules < 10000), for every
\* input, a zero, fractional or negative kinematic estimate included.
C10_ValidatorResult ==
    \A p \in Procs :
        (op[p] = "mint" /\ pc[p] \notin {"idle", "Validating"}
                        /\ outcome[p] # "Crashed") =>
            /\ loc[p].joules.n * args[p].m.kcal.d =
                  args[p].m.kcal.n * 4184 * loc[p].joules.d
            /\ loc[p].is_valid <=> ClaimedAccept(args[p].m)

\* C11: every transaction in the stored chain has an amount above zero, and
\* the three components of every BURN's redemption basket are not negative.
C11_AmountsPositive ==
    LedgerStored =>
        \A i \in 1..Len(AllTxs(fs[LEDGER].data)) :
            LET t == AllTxs(fs[LEDGER].data)[i]
            IN  /\ t.amount > 0
                /\ t.type = "BURN" =>
                      /\ t.redemption_basket.gold_grams >= 0
                      /\ t.redemption_basket.silk_grams >= 0
                      /\ t.redemption_basket.tencel_grams >= 0

\* C12: commits that run at the same time on one ledger file all keep their
\* block: when two mints or redeems have both finished, the blocks they
\* committed stand at two different positions of the stored chain, and the
\* chain has consecutive indices and is linked.
C12_ConcurrentCommitsKept ==
    /\ \A p, q \in Procs :
         (/\ p # q
          /\ pc[p] = "returned" /\ outcome[p] = "Done" /\ op[p] \in {"mint", "redeem"}
          /\ pc[q] = "returned" /\ outcome[q] = "Done" /\ op[q] \in {"mint", "redeem"}) =>
            /\ LedgerStored
            /\ \E i, j \in 1..Len(fs[LEDGER].data) :
                  /\ i # j
                  /\ fs[LEDGER].data[i] = loc[p].block
                  /\ fs[LEDGER].data[j] = loc[q].block
    /\ LedgerStored =>
         \A i \in 2..Len(fs[LEDGER].data) :
            /\ fs[LEDGER].data[i].index = fs[LEDGER].data[i - 1].index + 1
            /\ fs[LEDGER].data[i].prev_hash = fs[LEDGER].data[i - 1].block_hash

\* C13: every step that changes a stored chain keeps all its blocks as they
\* are and where they are and adds exactly one block at the end; and in every
\* stored chain the block at position i (counted from 0) has index i.
C13_AppendOnly ==
    /\ [][(LedgerStored /\ fs'[LEDGER] # fs[LEDGER]) =>
            /\ fs'[LEDGER].kind = "json"
            /\ IsPrefixPlusOne(fs[LEDGER].data, fs'[LEDGER].data)]_vars
    /\ [](LedgerStored =>
            \A i \in 1..Len(fs[LEDGER].data) : fs[LEDGER].data[i].index = i - 1)

\* A second commit has just added its block at position 2 of the chain.
C13_Witness ==
    \E p \in Procs :
        /\ pc[p] = "returned" /\ outcome[p] = "Done"
        /\ LedgerStored /\ Len(fs[LEDGER].data) = 3
        /\ fs[LEDGER].data[3] = loc[p].block
        /\ loc[p].block.index = 2
        /\ SubSeq(fs[LEDGER].data, 1, 2) = pre[p].fs[LEDGER].data

\* The operation of p has read the ledger file: every redeem and balance
\* does, a mint does once it is past validation and attestation.
HasLoaded(p) ==
    /\ pc[p] = "returned"
    /\ op[p] \in {"mint", "redeem", "balance"}
    /\ outcome[p] \notin {"ValidationRejected", "AttestationFailed", "Crashed"}

\* C14: an operation that loads a ledger file holding no valid chain (text
\* that cannot be parsed, or parsed text that is no non-empty array of
\* blocks) ends as LedgerCorrupt, the process terminating rather than the
\* orchestrator reporting a failure of its own, and the file is left as it
\* was.
C14_LedgerCorrupt ==
    \A p \in Procs :
        (HasLoaded(p) /\ pre[p].fs[LEDGER] \in CorruptFiles) =>
            /\ outcome[p] = "LedgerCorrupt"
            /\ fs[LEDGER] = pre[p].fs[LEDGER]

\* C15 as stated: while a balance query (balanceOf, then currentSupply) runs
\* and after it, the ledger file is as it was before, in existence and in
\* content, also when there was no file.
C15_ReadOnly ==
    \A p \in Procs :
        (op[p] = "balance" /\ pc[p] # "idle") => fs[LEDGER] = pre[p].fs[LEDGER]

\* C15, amended: a balance query never changes an existing ledger file and
\* never changes the chain that load gives; when there was no file the only
\* thing it can do to the ledger is create it with the genesis block alone.
C15_ReadsKeepChain ==
    \A p \in Procs :
        (op[p] = "balance" /\ pc[p] # "idle") =>
            /\ ChainOf(fs[LEDGER]) = ChainOf(pre[p].fs[LEDGER])
            /\ pre[p].fs[LEDGER] # NoFile => fs[LEDGER] = pre[p].fs[LEDGER]
            /\ pre[p].fs[LEDGER] = NoFile =>
                  fs[LEDGER] \in {NoFile, Json(<<genesis_block>>)}

\* A balance query has finished that found no ledger file and left one with
\* the genesis block.
C15_Witness ==
    \E p \in Procs :
        /\ op[p] = "balance" /\ pc[p] = "returned" /\ outcome[p] = "Done"
        /\ pre[p].fs[LEDGER] = NoFile
        /\ fs[LEDGER] = Json(<<genesis_block>>)
        /\ loc[p].balance = 0 /\ loc[p].supply = 0

\* C16: initialize on an existing ledger file, whatever its number of blocks,
\* changes no file at any point; initialize without a ledger file leaves, when
\* it finishes, a ledger holding the genesis block alone, and on the way the
\* ledger path holds nothing or that complete file (the text goes to the
\* temporary file first).
C16_InitializeIdempotent ==
    \A p \in Procs :
        (op[p] = "init" /\ pc[p] # "idle") =>
            /\ pre[p].fs[LEDGER] # NoFile => fs = pre[p].fs
            /\ pre[p].fs[LEDGER] = NoFile =>
                  /\ fs[LEDGER] \in {NoFile, Json(<<genesis_block>>)}
                  /\ (pc[p] = "returned" /\ outcome[p] = "Done") =>
                        /\ fs[LEDGER] = Json(<<genesis_block>>)
                        /\ fs[LEDGER_TMP] = NoFile
                  /\ pc[p] = "aw_replace" =>
                        /\ fs[LEDGER] = NoFile
                        /\ fs[LEDGER_TMP] = Json(<<genesis_block>>)

\* initialize has finished on a ledger that held two committed blocks.
C16_Witness ==
    \E p \in Procs :
        /\ op[p] = "init" /\ pc[p] = "returned" /\ outcome[p] = "Done"
        /\ pre[p].fs[LEDGER].kind = "json"
        /\ Len(pre[p].fs[LEDGER].data) = 3
        /\ fs = pre[p].fs

\* C17: the basket of a built BURN transaction holds the requested amount
\* times 0.000011, 0.0008 and 0.012, each rounded to 8 decimal places (to
\* whole units of 1e-8 g), and two BURN transactions with the same recorded
\* amount have the same basket.
C17_BasketOfRecordedAmount ==
    /\ \A p \in Procs :
         (op[p] = "redeem" /\ loc[p].tx # None) =>
            LET a == args[p].amount
                b == loc[p].tx.redemption_basket
            IN  /\ b.gold_grams = RoundDiv(a.n * 11, a.d * 1000000)
                /\ b.silk_grams = RoundDiv(a.n * 8, a.d * 10000)
                /\ b.tencel_grams = RoundDiv(a.n * 12, a.d * 1000)
    /\ \A p, q \in Procs :
         (/\ op[p] = "redeem" /\ loc[p].tx # None
          /\ op[q] = "redeem" /\ loc[q].tx # None
          /\ loc[p].tx.amount = loc[q].tx.amount) =>
            loc[p].tx.redemption_basket = loc[q].tx.redemption_basket

\* C18: no two mint attempts use the same proof folder: the MINT
\* transactions of the stored chain name pairwise different folders, and the
\* folder a MINT transaction names is in the proof store with the stamp that
\* the transaction records.
C18_ProofFolderPerAttempt ==
    LedgerStored =>
        LET txs == AllTxs(fs[LEDGER].data)
        IN  /\ \A i, j \in 1..Len(txs) :
                  (i # j /\ txs[i].type = "MINT" /\ txs[j].type = "MINT") =>
                     txs[i].validation_proof.proof_folder #
                        txs[j].validation_proof.proof_folder
            /\ \A i \in 1..Len(txs) :
                  txs[i].type = "MINT" =>
                     \E f \in proofs :
                        /\ f.name = txs[i].validation_proof.proof_folder
                        /\ f.ots_txid = txs[i].validation_proof.ots_txid

\* The state of the mint orchestrator that a position and an outcome stand
\* for; Committing runs from the call of commit to the report.
MintPhase(position, result) ==
    IF position = "idle" THEN "Idle"
    ELSE IF position \in {"Validating", "AttestationPending"} THEN position
    ELSE IF position # "returned" THEN "Committing"
    ELSE IF result = "Done" THEN "Done"
    ELSE IF result \in {"ValidationRejected", "AttestationFailed"} THEN "Rejected"
    ELSE IF result = "CommitFailure" THEN "CommitFailed"
    ELSE "Aborted"

\* The moves of the orchestrator as stated, and the death of the process.
StatedMintMoves ==
    { <<"Idle", "Validating">>,
      <<"Validating", "AttestationPending">>, <<"Validating", "Rejected">>,
      <<"AttestationPending", "Committing">>, <<"AttestationPending", "Rejected">>,
      <<"Committing", "Done">>,
      <<"Done", "Idle">>, <<"Rejected", "Idle">>,
      <<"Validating", "Aborted">>, <<"AttestationPending", "Aborted">>,
      <<"Committing", "Aborted">>, <<"Aborted", "Idle">> }

\* The move of p's mint in a step, when its state changes.
MintMovesWithin(moves) ==
    \A p \in Procs :
        LET from == MintPhase(pc[p], outcome[p])
            to == MintPhase(pc'[p], outcome'[p])
        IN  ((op[p] = "mint" \/ op'[p] = "mint") /\ from # to) =>
                <<from, to>> \in moves

\* A MINT transaction reaches the ledger only through a mint that was
\* accepted by the validator and whose attestation was verified before commit
\* was called: a mint in Committing or Done has both, the ledger file changes
\* only at the replace of such an operation (or of the first load's
\* initialize), and every stored MINT records work of at least 100000 J.
MintOnlyAfterChecks ==
    /\ [](\A p \in Procs :
            (op[p] = "mint"
             /\ MintPhase(pc[p], outcome[p]) \in {"Committing", "Done", "CommitFailed"}) =>
                /\ loc[p].is_valid /\ loc[p].joules.n >= 100000 * loc[p].joules.d
                /\ loc[p].verified = "yes")
    /\ [][fs'[LEDGER] # fs[LEDGER] =>
            \E p \in Procs : pc[p] = "aw_replace" /\ loc[p].is_valid
                             /\ loc[p].verified = "yes"]_vars
    /\ [](LedgerStored =>
            \A i \in 1..Len(AllTxs(fs[LEDGER].data)) :
                AllTxs(fs[LEDGER].data)[i].type = "MINT" =>
                    AllTxs(fs[LEDGER].data)[i].joules >= 100000)

MintDoneEffect(p) ==
    LET w == args[p].wallet
        k == args[p].m.kcal
        old == ChainOf(pre[p].fs[LEDGER])
        new == ChainOf(fs[LEDGER])
        t == new[Len(new)].txs[1]
    IN  /\ IsPrefixPlusOne(old, new)
        /\ Len(new[Len(new)].txs) = 1
        /\ t.type = "MINT"
        /\ t.wallet = w
        /\ t.amount = RoundDiv(k.n * 4184 * 95, k.d)
        /\ get_balance(new, w) = get_balance(old, w) + t.amount
        /\ get_current_supply(new) = get_current_supply(old) + t.amount
        /\ \A v \in Wallets \ {w} : get_balance(new, v) = get_balance(old, v)

\* The MINT transaction that p's finished mint has appended.
MintDoneTx(p) == ChainOf(fs[LEDGER])[Len(ChainOf(fs[LEDGER]))].txs[1]

\* C20 as stated: a mint that reaches Done has that effect, and the joules of
\* its MINT transaction equal the validator's workJoules, kcal * 4184.
C20_MintEffect ==
    \A p \in Procs :
        (op[p] = "mint" /\ pc[p] = "returned" /\ outcome[p] = "Done") =>
            /\ MintDoneEffect(p)
            /\ MintDoneTx(p).joules * args[p].m.kcal.d = args[p].m.kcal.n * 4184

\* C20, amended: a mint that reaches Done has that effect, and the joules of
\* its MINT transaction are workJoules rounded to the nearest whole number.
C20_MintEffectRoundedJoules ==
    \A p \in Procs :
        (op[p] = "mint" /\ pc[p] = "returned" /\ outcome[p] = "Done") =>
            /\ MintDoneEffect(p)
            /\ MintDoneTx(p).joules =
                  RoundDiv(args[p].m.kcal.n * 4184, args[p].m.kcal.d)

\* A mint has reached Done on a chain that already held a block, for work
\* that is no whole number of joules.
C20_Witness ==
    \E p \in Procs :
        /\ op[p] = "mint" /\ pc[p] = "returned" /\ outcome[p] = "Done"
        /\ Len(ChainOf(fs[LEDGER])) = 3
        /\ MintDoneTx(p).amount > 0
        /\ (args[p].m.kcal.n * 4184) % args[p].m.kcal.d # 0

\* C21: with a single writer, after any sequence of mints and redeems from the
\* genesis ledger no wallet's balance is below zero and the supply is not
\* below zero, although the gate compares the balance with the requested
\* amount and the BURN records that amount rounded to a whole number of sats.
C21_NothingNegative ==
    LedgerStored =>
        /\ \A w \in Wallets : get_balance(fs[LEDGER].data, w) >= 0
        /\ get_current_supply(fs[LEDGER].data) >= 0

\* A redeem whose requested amount lies a fraction of a sat under the
\* wallet's balance has finished: the recorded amount is above the requested
\* one and has emptied the wallet.
C21_Witness ==
    \E p \in Procs :
        /\ op[p] = "redeem" /\ pc[p] = "returned" /\ outcome[p] = "Done"
        /\ loc[p].tx.amount * args[p].amount.d > args[p].amount.n
        /\ get_balance(ChainOf(pre[p].fs[LEDGER]), args[p].wallet) > 0
        /\ get_balance(ChainOf(fs[LEDGER]), args[p].wallet) = 0

\* The wallets that occur in the transactions of chain c.
WalletsIn(c) == {AllTxs(c)[i].wallet : i \in 1..Len(AllTxs(c))}

\* The sum of get_balance over the wallets of the set ws.
RECURSIVE SumOfBalances(_, _)
SumOfBalances(c, ws) ==
    IF ws = {} THEN 0
    ELSE LET w == CHOOSE x \in ws : TRUE
         IN  get_balance(c, w) + SumOfBalances(c, ws \ {w})

\* C22: in every stored chain the supply field of the last block equals the
\* sum of the balances, derived by replaying the chain, of all wallets that
\* occur in it.
C22_SupplyIsSumOfBalances ==
    LedgerStored =>
        get_current_supply(fs[LEDGER].data) =
            SumOfBalances(fs[LEDGER].data, WalletsIn(fs[LEDGER].data))

\* The chain holds transactions of two wallets, one of them a BURN of a
\* non-zero amount, and its supply is not zero.
C22_Witness ==
    /\ LedgerStored
    /\ Cardinality(WalletsIn(fs[LEDGER].data)) = 2
    /\ Total(AllTxs(fs[LEDGER].data), "BURN") # 0
    /\ get_current_supply(fs[LEDGER].data) # 0

====
